---------------------------- MODULE Spec2Model ----------------------------
(***************************************************************************)
(* A model of the positioning core of pylineage: the ray traversal         *)
(* (grid/ray.pyx), the Grid and its GridSlots (grid/grid.py) and the       *)
(* CellPositioner (grid/cell_positioner.pyx).                              *)
(*                                                                         *)
(* Conventions of the model                                                *)
(*  - an index (coordinate) is a tuple of integers; Python's None is the   *)
(*    empty tuple, which no coordinate of the model equals;                *)
(*  - a Python value handed to Grid.__contains__ carries its type, because *)
(*    a dict hashes its key: a tuple is hashable, a list is not;           *)
(*  - a slope is a tuple of small integers.  The traversal only depends on *)
(*    the ratios of the components, so an integer slope stands for the     *)
(*    unit vector of the same direction.  The intercepts are kept as       *)
(*    numerators over the common denominator den (exact arithmetic, where  *)
(*    the code uses doubles);                                              *)
(*  - axes are numbered 1..n here and 0..n-1 in the code; min_dim = -1 of  *)
(*    the code is 0 here;                                                  *)
(*  - ray.pyx divides C doubles.  Cython raises ZeroDivisionError on a     *)
(*    zero divisor unless the module is compiled with the cdivision        *)
(*    directive, and then the quotient is +inf.  The build is not part of  *)
(*    the sources, so cdivision is either, fixed for a run;                *)
(*  - an action binds the outcome of the call it models once, as           *)
(*    \E r \in {call}.                                                     *)
(***************************************************************************)
EXTENDS Integers, Sequences, FiniteSets, TLC

\* ------------------------------------------------------------------ bounds
\* the indices of the model have components in -MaxCoord..MaxCoord
MaxCoord == 1
\* slopes have components in -MaxSlope..MaxSlope
MaxSlope == 2
\* a generator of the ray specification is advanced at most this often
MaxRaySteps == 5
\* at most this many GridSlots are constructed in the grid specification
MaxSlots == 3
\* at most this many GridSlots are constructed in the positioner specification
MaxPlaced == 4
\* a cell has at most this many children
MaxChildren == 3
\* at most this many operations of the CellPositioner are called in a run
MaxOps == 1

\* ------------------------------------------------------------------ values
None == <<>>

\* the dimension of the modelled grid (Grid.__init__'s n_dims)
n_dims == 2

Range(f) == {f[x] : x \in DOMAIN f}

\* all indices of dimension n within the bounds
Box(n) == [1..n -> -MaxCoord..MaxCoord]

\* all slopes of dimension n but the zero vector, which has no direction
Slopes(n) == {d \in [1..n -> -MaxSlope..MaxSlope] : \E i \in 1..n : d[i] # 0}

VARIABLES
    content,    \* Grid._content : index -> slot (a slot is its number)
    slots,      \* the GridSlots ever constructed: <<[grid, index], ...>>
    last,       \* the last operation: its name, arguments and outcome
    ops,        \* the number of CellPositioner operations so far
    cdivision,  \* the build: Cython's cdivision directive
    gen         \* the ray generator of the ray specification, with the
                \* items it has yielded

vars == <<content, slots, last, ops, cdivision, gen>>

\* ---------------------------------------------------------------------------
\* ray.pyx
\* ---------------------------------------------------------------------------
np_sign(x) == IF x > 0 THEN 1 ELSE IF x < 0 THEN -1 ELSE 0

np_abs(x) == IF x < 0 THEN -x ELSE x

\* a common denominator of all the intercepts a slope can produce: the
\* product of its non-zero magnitudes
RECURSIVE Denominator(_, _)
Denominator(slope_abs, i) ==
    IF i > Len(slope_abs) THEN 1
    ELSE (IF slope_abs[i] = 0 THEN 1 ELSE slope_abs[i])
         * Denominator(slope_abs, i + 1)

\* the locals of ray2 / ray3 before the first round of `while True`
RayLocals(n, index, slope) ==
    LET sabs == [i \in 1..n |-> np_abs(slope[i])]
    IN  [n         |-> n,
         idx       |-> index,
         slope_sgn |-> [i \in 1..n |-> np_sign(slope[i])],
         slope_abs |-> sabs,
         intercept |-> [i \in 1..n |-> 0],
         den       |-> Denominator(sabs, 1)]

ray2(index, slope) == RayLocals(2, index, slope)

ray3(index, slope) == RayLocals(3, index, slope)

\* ray(): dispatch on the length of the index
ray(index, slope) ==
    IF index = None THEN [err |-> "TypeError", gen |-> None]
    ELSE IF Len(index) = 2 THEN [err |-> "none", gen |-> ray2(index, slope)]
    ELSE IF Len(index) = 3 THEN [err |-> "none", gen |-> ray3(index, slope)]
    ELSE [err |-> "ValueError", gen |-> None]

\* step_size <= min_step: the last of several minima is taken
StepLessOrEqual(g, i, md) ==
    IF g.slope_abs[i] = 0 THEN FALSE
    ELSE IF md = 0
         THEN TRUE
         ELSE (g.den - g.intercept[i]) * g.slope_abs[md]
                 <= (g.den - g.intercept[md]) * g.slope_abs[i]

\* step_size < min_step, for axis i, when min_dim is md.  step_size is
\* (1 - intercept[i]) / slope_abs[i]; with cdivision a zero slope_abs[i] gives
\* +inf, which is below nothing.  While min_dim is still -1 (md = 0) min_step
\* is 10e10, and every finite step_size of an integer slope is at most 1.
StepLess(g, i, md) ==
    IF g.slope_abs[i] = 0 THEN FALSE
    ELSE IF md = 0
         THEN TRUE
         ELSE (g.den - g.intercept[i]) * g.slope_abs[md]
                 < (g.den - g.intercept[md]) * g.slope_abs[i]

\* the first `for i in range(n)` of a round: the axis of the first minimum
RECURSIVE MinDim(_, _, _)
MinDim(g, i, md) ==
    IF i > g.n THEN md
    ELSE MinDim(g, i + 1, IF StepLess(g, i, md) THEN i ELSE md)

\* idx[min_dim] += 2 * slope_sgn[min_dim]: an axis advanced by two units
AdvanceTwo(g, m) == [g.idx EXCEPT ![m] = @ + 2 * g.slope_sgn[m]]

\* idx[min_dim] += 1: the sign of the slope left out
AdvanceUp(g, m) == [g.idx EXCEPT ![m] = @ + 1]

\* idx[min_dim] += slope_sgn[min_dim]
Advance(g, m) == [g.idx EXCEPT ![m] = @ + g.slope_sgn[m]]

\* one round of `while True` up to the yield: the locals after it.  The
\* division raises ZeroDivisionError on a zero slope_abs[i] unless the module
\* is built with cdivision.
RayNext(g, cdiv) ==
    IF ~cdiv /\ \E i \in 1..g.n : g.slope_abs[i] = 0
    THEN [err |-> "ZeroDivisionError", gen |-> g]
    ELSE LET m == MinDim(g, 1, 0)
             \* intercept[i] += min_step * slope_abs[i], then
             \* intercept[min_dim] = 0
             icpt == [i \in 1..g.n |->
                        IF i = m THEN 0
                        ELSE g.intercept[i]
                             + ((g.den - g.intercept[m]) * g.slope_abs[i])
                               \div g.slope_abs[m]]
         IN  [err |-> "none",
              gen |-> [g EXCEPT !.intercept = icpt, !.idx = Advance(g, m)]]

\* ---------------------------------------------------------------------------
\* grid.py: Grid and GridSlot.  A heap h is [content, slots]; every operation
\* returns the heap after it and the error it raised ("none": it returned).
\* ---------------------------------------------------------------------------
PyTuple(v) == [type |-> "tuple", val |-> v]

PyList(v) == [type |-> "list", val |-> v]

\* tuple(i)
tuple(v) == PyTuple(v.val)

EmptyContent == [c \in {} |-> 0]

Heap(c, s) == [content |-> c, slots |-> s]

\* del d[k]
DictDel(d, k) == [c \in DOMAIN d \ {k} |-> d[c]]

\* d[k] = v
DictPut(d, k, v) == [c \in DOMAIN d \cup {k} |-> IF c = k THEN v ELSE d[c]]

\* Grid.__len__
Grid__len__(c) == Cardinality(DOMAIN c)

\* Grid.__contains__: `idx in self._content` hashes idx, and a list has no hash
Grid__contains__(c, key) ==
    IF key.type = "list" THEN [err |-> "TypeError", res |-> FALSE]
    ELSE [err |-> "none", res |-> key.val \in DOMAIN c]

\* Grid.__getitem__
Grid__getitem__(c, key) ==
    IF key.type = "list" THEN [err |-> "TypeError", res |-> 0]
    ELSE IF key.val \notin DOMAIN c THEN [err |-> "KeyError", res |-> 0]
    ELSE [err |-> "none", res |-> c[key.val]]

\* Grid.__delitem__ that leaves the index of the removed slot as it is
Grid__delitem__KeepsIndex(h, idx) ==
    IF idx \notin DOMAIN h.content
    THEN [err |-> "KeyError", h |-> h]
    ELSE [err |-> "none", h |-> Heap(DictDel(h.content, idx), h.slots)]

\* Grid.__delitem__
Grid__delitem__(h, idx) ==
    IF idx \notin DOMAIN h.content
    THEN [err |-> "KeyError", h |-> h]
    ELSE [err |-> "none",
          h |-> Heap(DictDel(h.content, idx),
                     [h.slots EXCEPT ![h.content[idx]].index = None])]

\* Grid.__setitem__ that leaves the entry at the slot's previous index
Grid__setitem__KeepsOld(h, idx, slot) ==
    IF idx = None THEN [err |-> "TypeError", h |-> h]
    ELSE IF Len(idx) # n_dims THEN [err |-> "ValueError", h |-> h]
    ELSE LET s1 == IF idx \in DOMAIN h.content
                   THEN [h.slots EXCEPT ![h.content[idx]].index = None]
                   ELSE h.slots
         IN  [err |-> "none",
              h |-> Heap(DictPut(h.content, idx, slot),
                         [s1 EXCEPT ![slot].index = idx])]

\* Grid.__setitem__ without the check of the dimension of idx
Grid__setitem__NoDimCheck(h, idx, slot) ==
    IF idx = None THEN [err |-> "TypeError", h |-> h]
    ELSE LET old == h.slots[slot].index
             c1 == IF old \in DOMAIN h.content
                   THEN DictDel(h.content, old) ELSE h.content
             s1 == IF idx \in DOMAIN c1
                   THEN [h.slots EXCEPT ![c1[idx]].index = None] ELSE h.slots
         IN  [err |-> "none",
              h |-> Heap(DictPut(c1, idx, slot),
                         [s1 EXCEPT ![slot].index = idx])]

\* Grid.__setitem__ that sets the index of the slot and forgets
\* self._content[idx] = slot
Grid__setitem__DropsEntry(h, idx, slot) ==
    IF idx = None THEN [err |-> "TypeError", h |-> h]
    ELSE IF Len(idx) # n_dims THEN [err |-> "ValueError", h |-> h]
    ELSE LET old == h.slots[slot].index
             c1 == IF old \in DOMAIN h.content
                   THEN DictDel(h.content, old) ELSE h.content
             s1 == IF idx \in DOMAIN c1
                   THEN [h.slots EXCEPT ![c1[idx]].index = None] ELSE h.slots
         IN  [err |-> "none",
              h |-> Heap(c1, [s1 EXCEPT ![slot].index = idx])]

\* Grid.__setitem__
Grid__setitem__(h, idx, slot) ==
    IF idx = None THEN [err |-> "TypeError", h |-> h]
    ELSE IF Len(idx) # n_dims THEN [err |-> "ValueError", h |-> h]
    ELSE LET old == h.slots[slot].index
             \* if slot.index in self._content: del self._content[slot.index]
             c1 == IF old \in DOMAIN h.content
                   THEN DictDel(h.content, old) ELSE h.content
             \* if idx in self._content: self._content[idx].index = None
             s1 == IF idx \in DOMAIN c1
                   THEN [h.slots EXCEPT ![c1[idx]].index = None] ELSE h.slots
         IN  [err |-> "none",
              h |-> Heap(DictPut(c1, idx, slot),
                         [s1 EXCEPT ![slot].index = idx])]

\* GridSlot.__init__: the new slot is number Len(slots) + 1.  When
\* grid[index] = self raises, the constructor raises and no slot comes to be.
GridSlot__init__(h, grid, index) ==
    LET self == Len(h.slots) + 1
        h0 == Heap(h.content, Append(h.slots, [grid |-> grid, index |-> None]))
        r == IF grid # "None" /\ index # None
             THEN Grid__setitem__(h0, index, self)
             ELSE [err |-> "none", h |-> h0]
    IN  IF r.err # "none" THEN [err |-> r.err, h |-> h, res |-> 0]
        ELSE [err |-> "none",
              h |-> Heap(r.h.content, [r.h.slots EXCEPT ![self].index = index]),
              res |-> self]

\* Grid.make_position
make_position(h, index) == GridSlot__init__(h, "grid", index)

\* the indices GridSlot.neighbors probes, in its order: for each axis, -1, +1
Probes(index) ==
    [j \in 1..(2 * Len(index)) |->
        PyList([index EXCEPT ![(j + 1) \div 2] = @ + (IF j % 2 = 1 THEN -1 ELSE 1)])]

\* the loop of GridSlot.neighbors from probe j on; acc: the slots yielded
RECURSIVE NeighborsLoop(_, _, _, _)
NeighborsLoop(c, probes, j, acc) ==
    IF j > Len(probes) THEN [err |-> "none", res |-> acc]
    ELSE LET has == Grid__contains__(c, probes[j])
         IN  IF has.err # "none" THEN [err |-> has.err, res |-> acc]
             ELSE IF ~has.res THEN NeighborsLoop(c, probes, j + 1, acc)
             ELSE LET got == Grid__getitem__(c, probes[j])
                  IN  IF got.err # "none" THEN [err |-> got.err, res |-> acc]
                      ELSE NeighborsLoop(c, probes, j + 1, Append(acc, got.res))

\* GridSlot.neighbors, consumed to its end
neighbors(h, slot) ==
    IF h.slots[slot].grid = "None" THEN [err |-> "ValueError", res |-> <<>>]
    ELSE IF h.slots[slot].index = None THEN [err |-> "ValueError", res |-> <<>>]
    ELSE NeighborsLoop(h.content, Probes(h.slots[slot].index), 1, <<>>)

\* ---------------------------------------------------------------------------
\* cell_positioner.pyx: CellPositioner
\* ---------------------------------------------------------------------------
\* the slopes random_direction draws: a normalised vector of normal variates,
\* each of which is non-zero with probability one
RandomDirections(n) == {d \in Slopes(n) : \A i \in 1..n : d[i] # 0}

\* the `for i in r` loop of shift ending one item of the ray after the first
\* index that is not in the grid
RECURSIVE CollectOneFurther(_, _, _, _)
CollectOneFurther(c, g, cdiv, stack) ==
    LET r == RayNext(g, cdiv)
        i == tuple(PyList(r.gen.idx))
    IN  IF r.err # "none" THEN [err |-> r.err, stack |-> stack, i |-> None]
        ELSE IF Grid__contains__(c, i).res
             THEN CollectOneFurther(c, r.gen, cdiv, Append(stack, i.val))
             ELSE [err |-> "none", stack |-> stack,
                   i |-> RayNext(r.gen, cdiv).gen.idx]

\* the `for i in r` loop of shift: the stack of occupied indices and the
\* index i the loop ends on
RECURSIVE Collect(_, _, _, _)
Collect(c, g, cdiv, stack) ==
    LET r == RayNext(g, cdiv)
        i == tuple(PyList(r.gen.idx))
    IN  IF r.err # "none" THEN [err |-> r.err, stack |-> stack, i |-> None]
        ELSE IF Grid__contains__(c, i).res
             THEN Collect(c, r.gen, cdiv, Append(stack, i.val))
             ELSE [err |-> "none", stack |-> stack, i |-> i.val]

\* one move of shift: self.grid[free] = self.grid[i]
Move(h, free, i) ==
    LET got == Grid__getitem__(h.content, PyTuple(i))
    IN  IF got.err # "none" THEN [err |-> got.err, h |-> h]
        ELSE Grid__setitem__(h, free, got.res)

\* the `while stack` loop taking the stack from its bottom (the origin first)
RECURSIVE UnwindFromOrigin(_, _, _, _)
UnwindFromOrigin(h, stack, i, moves) ==
    IF stack = <<>> THEN [err |-> "none", h |-> h, moves |-> moves]
    ELSE LET free == i
             top == stack[1]
             r == Move(h, free, top)
         IN  IF r.err # "none"
             THEN [err |-> r.err, h |-> h, moves |-> moves]
             ELSE UnwindFromOrigin(r.h, SubSeq(stack, 2, Len(stack)), top,
                                   Append(moves, <<top, free>>))

\* the `while stack` loop of shift; moves: the <<from, to>> pairs so far
RECURSIVE Unwind(_, _, _, _)
Unwind(h, stack, i, moves) ==
    IF stack = <<>> THEN [err |-> "none", h |-> h, moves |-> moves]
    ELSE LET free == i
             top == stack[Len(stack)]
             r == Move(h, free, top)
         IN  IF r.err # "none"
             THEN [err |-> r.err, h |-> h, moves |-> moves]
             ELSE Unwind(r.h, SubSeq(stack, 1, Len(stack) - 1), top,
                         Append(moves, <<top, free>>))

\* CellPositioner.shift
shift(h, idx, direction, cdiv) ==
    LET r == ray(idx, direction)
    IN  IF r.err # "none"
        THEN [err |-> r.err, h |-> h, stack |-> <<>>, free |-> None,
              moves |-> <<>>]
        ELSE LET col == Collect(h.content, r.gen, cdiv, <<idx>>)
             IN  IF col.err # "none"
                 THEN [err |-> col.err, h |-> h, stack |-> col.stack,
                       free |-> None, moves |-> <<>>]
                 ELSE LET u == Unwind(h, col.stack, col.i, <<>>)
                      IN  [err |-> u.err, h |-> u.h, stack |-> col.stack,
                           free |-> col.i, moves |-> u.moves]

\* CellPositioner.make_space; direction: what random_direction returned
make_space(h, idx, direction, cdiv) == shift(h, idx, direction, cdiv)

\* replace_with_children reading cell.position.index once, before the loop:
\* every make_space and make_position at the parent's first index
RECURSIVE PlaceChildrenAtFirstIndex(_, _, _, _, _, _, _, _)
PlaceChildrenAtFirstIndex(h, cell, j, k, dirs, cdiv, calls, kids) ==
    LET idx == IF calls = <<>> THEN h.slots[cell].index ELSE calls[1][2]
    IN  IF j >= k
        THEN LET mp == make_position(h, idx)
             IN  [err |-> mp.err, h |-> mp.h,
                  calls |-> Append(calls, <<"make_position", idx>>),
                  kids |-> IF mp.err = "none" THEN Append(kids, mp.res) ELSE kids]
        ELSE LET ms == make_space(h, idx, dirs[j], cdiv)
                 calls1 == Append(calls, <<"make_space", idx>>)
             IN  IF ms.err # "none"
                 THEN [err |-> ms.err, h |-> ms.h, calls |-> calls1,
                       kids |-> kids]
                 ELSE LET mp == make_position(ms.h, idx)
                          calls2 == Append(calls1, <<"make_position", idx>>)
                      IN  IF mp.err # "none"
                          THEN [err |-> mp.err, h |-> mp.h, calls |-> calls2,
                                kids |-> kids]
                          ELSE PlaceChildrenAtFirstIndex(
                                   mp.h, cell, j + 1, k, dirs, cdiv, calls2,
                                   Append(kids, mp.res))

\* the `for child in children[:-1]` loop of replace_with_children from child
\* j on; cell: the slot that is cell.position; dirs: the directions drawn;
\* calls: the calls made so far; kids: the slots given to the children
RECURSIVE PlaceChildren(_, _, _, _, _, _, _, _)
PlaceChildren(h, cell, j, k, dirs, cdiv, calls, kids) ==
    LET idx == h.slots[cell].index
    IN  IF j >= k
        THEN \* the last child
             LET mp == make_position(h, idx)
             IN  [err |-> mp.err, h |-> mp.h,
                  calls |-> Append(calls, <<"make_position", idx>>),
                  kids |-> IF mp.err = "none" THEN Append(kids, mp.res) ELSE kids]
        ELSE LET ms == make_space(h, idx, dirs[j], cdiv)
                 calls1 == Append(calls, <<"make_space", idx>>)
             IN  IF ms.err # "none"
                 THEN [err |-> ms.err, h |-> ms.h, calls |-> calls1,
                       kids |-> kids]
                 ELSE LET mp == make_position(ms.h, idx)
                          calls2 == Append(calls1, <<"make_position", idx>>)
                      IN  IF mp.err # "none"
                          THEN [err |-> mp.err, h |-> mp.h, calls |-> calls2,
                                kids |-> kids]
                          ELSE PlaceChildren(mp.h, cell, j + 1, k, dirs, cdiv,
                                             calls2, Append(kids, mp.res))

\* CellPositioner.replace_with_children for a cell with k children whose
\* position is the slot cell; children[-1] of no children is an IndexError
replace_with_children(h, cell, k, dirs, cdiv) ==
    IF k = 0
    THEN [err |-> "IndexError", h |-> h, calls |-> <<>>, kids |-> <<>>]
    ELSE PlaceChildren(h, cell, 1, k, dirs, cdiv, <<>>, <<>>)

\* ---------------------------------------------------------------------------
\* The grid specification: the operations of Grid and GridSlot, called in any
\* order on one grid
\* ---------------------------------------------------------------------------
\* the record of the last operation; info is particular to the operation
Last(op, idx, slot, err, res, info) ==
    [op |-> op, idx |-> idx, slot |-> slot, err |-> err, res |-> res,
     info |-> info]

NoLast == Last("init", None, 0, "none", 0, <<>>)

NoGen == [origin |-> None, slope |-> None, g |-> None, prev |-> None,
          count |-> 0, err |-> "none", seen |-> <<>>]

\* an index of the wrong dimension
WrongIdx == [i \in 1..(n_dims + 1) |-> 0]

\* the indices handed to the operations of the grid specification: those of
\* the box without a negative component
Keys == {c \in Box(n_dims) : \A i \in 1..n_dims : c[i] >= 0}

Here == Heap(content, slots)

Slot == 1..Len(slots)

Init ==
    /\ content = EmptyContent
    /\ slots = <<>>
    /\ last = NoLast
    /\ ops = 0
    /\ cdivision = FALSE
    /\ gen = NoGen

\* GridSlot(index=index): a slot constructed without a grid
NewSlot(index) ==
    /\ Len(slots) < MaxSlots
    /\ \E r \in {GridSlot__init__(Here, "None", index)} :
           /\ content' = r.h.content
           /\ slots' = r.h.slots
           /\ last' = Last("GridSlot", index, r.res, r.err, r.res, <<>>)
    /\ UNCHANGED <<ops, cdivision, gen>>

\* grid.make_position(index)
MakePosition(index) ==
    /\ Len(slots) < MaxSlots
    /\ \E r \in {make_position(Here, index)} :
           /\ content' = r.h.content
           /\ slots' = r.h.slots
           /\ last' = Last("make_position", index, r.res, r.err, r.res, <<>>)
    /\ UNCHANGED <<ops, cdivision, gen>>

\* grid[idx] = slot
SetItem(idx, slot) ==
    /\ \E r \in {Grid__setitem__(Here, idx, slot)} :
           /\ content' = r.h.content
           /\ slots' = r.h.slots
           /\ last' = Last("set", idx, slot, r.err, 0,
                           [old |-> slots[slot].index,
                            at  |-> IF idx \in DOMAIN content
                                    THEN content[idx] ELSE 0])
    /\ UNCHANGED <<ops, cdivision, gen>>

\* del grid[idx]
DelItem(idx) ==
    /\ \E r \in {Grid__delitem__(Here, idx)} :
           /\ content' = r.h.content
           /\ slots' = r.h.slots
           /\ last' = Last("delete", idx, 0, r.err, 0, <<>>)
    /\ UNCHANGED <<ops, cdivision, gen>>

\* grid[idx]
GetItem(idx) ==
    /\ \E r \in {Grid__getitem__(content, PyTuple(idx))} :
           last' = Last("get", idx, 0, r.err, r.res, <<>>)
    /\ UNCHANGED <<content, slots, ops, cdivision, gen>>

\* idx in grid
Contains(idx) ==
    /\ \E r \in {Grid__contains__(content, PyTuple(idx))} :
           last' = Last("contains", idx, 0, r.err, r.res, <<>>)
    /\ UNCHANGED <<content, slots, ops, cdivision, gen>>

\* list(slot.neighbors)
Neighbors(slot) ==
    /\ \E r \in {neighbors(Here, slot)} :
           last' = Last("neighbors", None, slot, r.err, r.res, <<>>)
    /\ UNCHANGED <<content, slots, ops, cdivision, gen>>

Next ==
    \/ \E i \in Keys \cup {None} : NewSlot(i)
    \/ \E i \in Keys \cup {None, WrongIdx} : MakePosition(i)
    \/ \E i \in Keys \cup {WrongIdx} : \E s \in Slot : SetItem(i, s)
    \/ \E i \in Keys : DelItem(i)
    \/ \E i \in Keys : GetItem(i)
    \/ \E i \in Keys : Contains(i)
    \/ \E s \in Slot : Neighbors(s)

Spec == Init /\ [][Next]_vars

\* ---------------------------------------------------------------------------
\* The positioner specification: a grid filled by make_position, and the
\* operations of the CellPositioner on it.  The operations are taken while
\* they leave every slot inside the box.
\* ---------------------------------------------------------------------------
InBox(c) == DOMAIN c \subseteq Box(n_dims)

InitPos ==
    /\ content = EmptyContent
    /\ slots = <<>>
    /\ last = NoLast
    /\ ops = 0
    /\ cdivision \in BOOLEAN
    /\ gen = NoGen

\* grid.make_position(index) on the positioner's grid
Place(index) ==
    /\ Len(slots) < MaxPlaced
    /\ \E r \in {make_position(Here, index)} :
           /\ content' = r.h.content
           /\ slots' = r.h.slots
           /\ last' = Last("make_position", index, r.res, r.err, r.res, <<>>)
    /\ UNCHANGED <<ops, cdivision, gen>>

\* positioner.shift(idx, direction)
Shift(idx, direction) ==
    /\ ops < MaxOps
    /\ ops' = ops + 1
    /\ \E r \in {shift(Here, idx, direction, cdivision)} :
           /\ InBox(r.h.content)
           /\ content' = r.h.content
           /\ slots' = r.h.slots
           /\ last' = Last("shift", idx, 0, r.err, 0,
                           [dir |-> direction, stack |-> r.stack,
                            free |-> r.free, moves |-> r.moves])
    /\ UNCHANGED <<cdivision, gen>>

\* positioner.make_space(idx)
MakeSpace(idx) ==
    /\ ops < MaxOps
    /\ ops' = ops + 1
    /\ \E d \in RandomDirections(n_dims) :
          \E r \in {make_space(Here, idx, d, cdivision)} :
              /\ InBox(r.h.content)
              /\ content' = r.h.content
              /\ slots' = r.h.slots
              /\ last' = Last("make_space", idx, 0, r.err, 0,
                              [dir |-> d, stack |-> r.stack,
                               free |-> r.free, moves |-> r.moves])
    /\ UNCHANGED <<cdivision, gen>>

\* positioner.replace_with_children(cell), cell.position being the slot cell
\* and cell having k children
ReplaceWithChildren(cell, k) ==
    /\ ops < MaxOps
    /\ ops' = ops + 1
    /\ Len(slots) + k <= MaxPlaced
    /\ \E dirs \in [1..(IF k = 0 THEN 0 ELSE k - 1) -> RandomDirections(n_dims)] :
          \E r \in {replace_with_children(Here, cell, k, dirs, cdivision)} :
              /\ InBox(r.h.content)
              /\ content' = r.h.content
              /\ slots' = r.h.slots
              /\ last' = Last("replace_with_children", slots[cell].index, cell,
                              r.err, 0,
                              [k |-> k, dirs |-> dirs, calls |-> r.calls,
                               kids |-> r.kids])
    /\ UNCHANGED <<cdivision, gen>>

NextPos ==
    \/ \E i \in Keys \cup {None} : Place(i)
    \/ \E i \in Keys : \E d \in Slopes(n_dims) : Shift(i, d)
    \/ \E i \in Keys : MakeSpace(i)
    \/ \E s \in Slot : \E k \in 0..MaxChildren : ReplaceWithChildren(s, k)

SpecPos == InitPos /\ [][NextPos]_vars

\* ---------------------------------------------------------------------------
\* The ray specification: one generator, advanced step by step
\* ---------------------------------------------------------------------------

InitRay ==
    /\ content = [c \in {} |-> 0]
    /\ slots = <<>>
    /\ last = NoLast
    /\ ops = 0
    /\ cdivision \in BOOLEAN
    /\ \E n \in {2, 3} : \E o \in Box(n) : \E d \in Slopes(n) :
          gen = [origin |-> o, slope |-> d, g |-> ray(o, d).gen, prev |-> None,
                 count |-> 0, err |-> "none", seen |-> <<>>]

\* next(generator)
RayStep ==
    /\ gen.err = "none"
    /\ gen.count < MaxRaySteps
    /\ \E r \in {RayNext(gen.g, cdivision)} :
           gen' = [gen EXCEPT !.g = r.gen,
                              !.prev = gen.g.idx,
                              !.count = IF r.err = "none" THEN @ + 1 ELSE @,
                              !.err = r.err,
                              !.seen = IF r.err = "none"
                                       THEN Append(@, r.gen.idx) ELSE @]
    /\ UNCHANGED <<content, slots, last, ops, cdivision>>

NextRay == RayStep

SpecRay == InitRay /\ [][NextRay]_vars

\* ---------------------------------------------------------------------------
\* Properties
\* ---------------------------------------------------------------------------
\* a and b differ by exactly 1 in exactly one component
Adjacent(a, b) ==
    /\ Len(a) = Len(b)
    /\ \E i \in 1..Len(a) :
          /\ a[i] - b[i] \in {-1, 1}
          /\ \A j \in 1..Len(a) : j # i => a[j] = b[j]

\* slot s is stored in the grid c under the index it records
Placed(c, ss, s) == ss[s].index \in DOMAIN c /\ c[ss[s].index] = s

\* C3: after any sequence of set, delete and make_position on one grid, every
\* stored (index, slot) pair has slot.index = index, and no slot is stored
\* under two indices.
C3_GridBijection ==
    /\ \A c \in DOMAIN content : slots[content[c]].index = c
    /\ \A c1, c2 \in DOMAIN content : content[c1] = content[c2] => c1 = c2

\* a set has moved a placed slot to another index while other slots are stored
C3_Witness ==
    /\ last.op = "set" /\ last.err = "none"
    /\ last.info.old # None /\ last.info.old # last.idx
    /\ Cardinality(DOMAIN content) >= 2

\* C4: every slot has index None, or the grid stores that very slot under
\* slot.index.
C4_SlotIndexInvariant ==
    \A s \in Slot : slots[s].index = None \/ Placed(content, slots, s)

\* C5: after grid[c] = s, (a) the index s was stored under before is no key
\* any more unless it is c; (b) a different slot t that was stored at c has
\* index None and is stored nowhere; (c) s.index = c and grid[c] is s.
C5_SetRelocatesAndEvicts ==
    [][(last'.op = "set" /\ last'.err = "none") =>
        LET c == last'.idx
            s == last'.slot
        IN  /\ \A c0 \in DOMAIN content :
                  (content[c0] = s /\ c0 # c) => c0 \notin DOMAIN content'
            /\ (c \in DOMAIN content /\ content[c] # s) =>
                  /\ slots'[content[c]].index = None
                  /\ content[c] \notin Range(content')
            /\ slots'[s].index = c
            /\ c \in DOMAIN content' /\ content'[c] = s]_vars

\* C6: del grid[c] on an occupied c removes the entry, sets the index of the
\* slot that was there to None and leaves every other entry and slot as it
\* was; on an absent c it raises KeyError and changes nothing.
C6_Delete ==
    [][(last'.op = "delete") =>
        LET c == last'.idx
        IN  IF c \in DOMAIN content
            THEN /\ last'.err = "none"
                 /\ DOMAIN content' = DOMAIN content \ {c}
                 /\ \A d \in DOMAIN content' : content'[d] = content[d]
                 /\ slots'[content[c]].index = None
                 /\ \A s \in Slot : s # content[c] => slots'[s] = slots[s]
                 /\ Len(slots') = Len(slots)
            ELSE /\ last'.err = "KeyError"
                 /\ content' = content
                 /\ slots' = slots]_vars

\* a delete has removed one of several entries
C6_Witness ==
    /\ last.op = "delete" /\ last.err = "none"
    /\ Cardinality(DOMAIN content) >= 1

\* the slots stored at the indices adjacent to index
NeighborSlots(c, index) == {c[d] : d \in {e \in DOMAIN c : Adjacent(e, index)}}

\* C8: neighbors of a slot that has a grid and an index returns exactly the
\* slots stored at the adjacent indices; without a grid or with index None it
\* raises an error.
C8_Neighbors ==
    last.op = "neighbors" =>
        IF slots[last.slot].grid = "None" \/ slots[last.slot].index = None
        THEN last.err # "none"
        ELSE /\ last.err = "none"
             /\ Range(last.res) = NeighborSlots(content, slots[last.slot].index)
             /\ Len(last.res) = Cardinality(Range(last.res))

\* C1: when origin is occupied and the ray reaches a free index, after
\* shift(origin, d) / make_space(origin) origin is no key of the grid, the
\* grid has as many entries as before, and it stores exactly the slots it
\* stored before, each once.
C1_MakeSpaceConservation ==
    [][(/\ last'.op \in {"shift", "make_space"}
        /\ last'.idx \in DOMAIN content
        /\ last'.err # "ZeroDivisionError") =>
            /\ last'.err = "none"
            /\ last'.idx \notin DOMAIN content'
            /\ Cardinality(DOMAIN content') = Cardinality(DOMAIN content)
            /\ Range(content') = Range(content)
            /\ Cardinality(Range(content')) = Cardinality(DOMAIN content')]_vars

\* a shift has moved a chain of two slots
C1_Witness ==
    /\ last.op \in {"shift", "make_space"} /\ last.err = "none"
    /\ Len(last.info.moves) >= 2

\* C2: replace_with_children on a placed parent with k >= 1 children adds
\* exactly k - 1 entries to the grid, and the k children hold slots stored in
\* the grid at k distinct indices.
C2_ReplaceCount ==
    [][(/\ last'.op = "replace_with_children"
        /\ last'.info.k >= 1
        /\ slots[last'.slot].index # None
        /\ Placed(content, slots, last'.slot)) =>
            LET k == last'.info.k
                kids == last'.info.kids
            IN  /\ last'.err = "none"
                /\ Cardinality(DOMAIN content') = Cardinality(DOMAIN content) + k - 1
                /\ Len(kids) = k
                /\ \A j \in 1..k : Placed(content', slots', kids[j])
                /\ \A i, j \in 1..k :
                      i # j => slots'[kids[i]].index # slots'[kids[j]].index]_vars

\* a cell with three children has been replaced
C2_Witness ==
    /\ last.op = "replace_with_children" /\ last.err = "none"
    /\ last.info.k = 3
    /\ last.idx # None

\* C7: the first index a ray yields differs from the origin, and every index
\* it yields differs from the one before, by one unit in exactly one axis.
C7_RayStep ==
    gen.count > 0 =>
        /\ Adjacent(gen.prev, gen.g.idx)
        /\ gen.count = 1 => Adjacent(gen.origin, gen.g.idx)

\* a 3-D ray, no axis of which is idle, has yielded three indices
C7_Witness ==
    /\ gen.count >= 3
    /\ gen.g.n = 3
    /\ \A i \in 1..3 : gen.slope[i] # 0

\* the first index ray(q, d) yields
FirstOnRay(q, d) == RayNext(ray(q, d).gen, cdivision).gen.idx

\* C9 as stated: every make_space and every make_position of
\* replace_with_children is at the index p the parent has when the call starts.
C9_SameLiteralCoordinate ==
    (/\ last.op = "replace_with_children"
     /\ last.err = "none"
     /\ last.idx # None) =>
        LET k == last.info.k
            calls == last.info.calls
        IN  /\ Len(calls) = 2 * k - 1
            /\ \A j \in 1..Len(calls) : calls[j][2] = last.idx
            /\ \A j \in 1..(k - 1) :
                  calls[2 * j - 1][1] = "make_space" /\ calls[2 * j][1] = "make_position"
            /\ calls[2 * k - 1][1] = "make_position"

\* C9 amended: the index is read from the parent's slot again in every round.
\* Round j calls make_space(q_j) and places child j at the same q_j, where q_1
\* is p and q_(j+1) is the first index of the ray from q_j, to which
\* make_space moved the parent's slot; the last child is placed, without a
\* make_space, at q_k, where it evicts the parent's slot.
C9_IndexReadEveryRound ==
    (/\ last.op = "replace_with_children"
     /\ last.info.k >= 1
     /\ last.idx # None) =>
        LET k == last.info.k
            calls == last.info.calls
            dirs == last.info.dirs
            q(j) == calls[2 * j - 1][2]
        IN  /\ last.err = "none"
            /\ Len(calls) = 2 * k - 1
            /\ q(1) = last.idx
            /\ \A j \in 1..(k - 1) :
                  /\ calls[2 * j - 1] = <<"make_space", q(j)>>
                  /\ calls[2 * j] = <<"make_position", q(j)>>
                  /\ q(j + 1) = FirstOnRay(q(j), dirs[j])
                  /\ q(j + 1) # q(j)
            /\ calls[2 * k - 1][1] = "make_position"
            /\ slots[last.info.kids[k]].index = q(k)
            /\ slots[last.slot].index = None

\* a cell with two or more children has been replaced
C9_Witness ==
    /\ last.op = "replace_with_children" /\ last.err = "none"
    /\ last.info.k >= 2
    /\ last.idx # None

\* C10: replace_with_children on a parent placed at p with two children leaves
\* one child's slot stored at p and the other's at an index adjacent to p; a
\* grid that held only the parent holds two entries afterwards.
C10_TwoChildren ==
    (/\ last.op = "replace_with_children"
     /\ last.info.k = 2
     /\ last.idx # None) =>
        /\ last.err = "none"
        /\ \E a, b \in Range(last.info.kids) :
              /\ a # b
              /\ Placed(content, slots, a) /\ slots[a].index = last.idx
              /\ Placed(content, slots, b) /\ Adjacent(slots[b].index, last.idx)
        /\ Len(slots) = 3 => Cardinality(DOMAIN content) = 2

\* a cell with two children has been replaced in a grid that held only it
C10_Witness ==
    /\ last.op = "replace_with_children" /\ last.err = "none"
    /\ last.info.k = 2
    /\ last.idx # None
    /\ Len(slots) = 3

\* ---------------------------------------------------------------------------
\* C11: a ray whose direction is non-zero in exactly one axis yields
\* origin + 1*u, origin + 2*u, ... (u the signed unit vector of that axis): it
\* never fails, and after j items the index is origin + j*u, so that no axis
\* with a zero component has moved
AxisAligned(d) == Cardinality({i \in DOMAIN d : d[i] # 0}) = 1

C11_AxisAlignedRay ==
    (gen # NoGen /\ AxisAligned(gen.slope))
        => /\ gen.err = "none"
           /\ gen.g.idx = [i \in DOMAIN gen.origin |->
                             gen.origin[i] + gen.count * np_sign(gen.slope[i])]

\* the same for the build with cdivision: there the sequence is produced
C11_AxisAlignedWithCDivision ==
    (gen # NoGen /\ AxisAligned(gen.slope) /\ cdivision)
        => /\ gen.err = "none"
           /\ gen.g.idx = [i \in DOMAIN gen.origin |->
                             gen.origin[i] + gen.count * np_sign(gen.slope[i])]

\* ---------------------------------------------------------------------------
\* C12: grid[c] = s with len(c) different from the grid's n_dims raises an
\* error (ValueError) and leaves the mapping of the grid and the index of
\* every slot, s included, as they were before the call
C12_DimensionMismatch ==
    [][(last'.op = "set" /\ Len(last'.idx) # n_dims)
          => /\ last'.err = "ValueError"
             /\ content' = content
             /\ slots' = slots]_vars

\* a set of a wrong dimension was raised on a grid that stores a slot, for a
\* slot that has an index
C12_Witness ==
    /\ last.op = "set"
    /\ Len(last.idx) # n_dims
    /\ last.err = "ValueError"
    /\ content # EmptyContent
    /\ slots[last.slot].index # None

\* ---------------------------------------------------------------------------
\* C13: a get or a contains that directly follows a successful grid[c] = s
\* with the same c returns s, respectively True; and every get and every
\* contains, of a present or an absent coordinate, leaves the mapping of the
\* grid and the index of every slot as they were
C13_LookupAfterSet ==
    [][/\ (last'.op \in {"get", "contains"})
            => (content' = content /\ slots' = slots)
       /\ (/\ last.op = "set"
           /\ last.err = "none"
           /\ last'.idx = last.idx)
            => /\ (last'.op = "get")
                    => (last'.err = "none" /\ last'.res = last.slot)
               /\ (last'.op = "contains")
                    => (last'.err = "none" /\ last'.res = TRUE)]_vars

\* a get returned the slot that the set before it stored, on a grid that
\* stores another slot as well
C13_Witness ==
    /\ last.op = "get"
    /\ last.err = "none"
    /\ last.res \in Slot
    /\ Cardinality(DOMAIN content) >= 2

\* ---------------------------------------------------------------------------
\* the generator of a ray after j items
RECURSIVE RayAfter(_, _)
RayAfter(g, j) ==
    IF j = 0 THEN g ELSE RayNext(RayAfter(g, j - 1), cdivision).gen

\* c_j: the origin for j = 0, else the j-th index the ray yields
OnRay(origin, d, j) == RayAfter(ray(origin, d).gen, j).idx

\* m: c_0 .. c_m are keys of the grid c and c_(m+1) is the first that is not
ChainEnd(c, origin, d) ==
    CHOOSE m \in 0..Cardinality(DOMAIN c) :
        /\ \A j \in 0..m : OnRay(origin, d, j) \in DOMAIN c
        /\ OnRay(origin, d, m + 1) \notin DOMAIN c

\* the keys of the grid c before move number t of the moves mv, each move
\* freeing its source and occupying its destination
KeysBefore(c, mv, t) ==
    (DOMAIN c \ {mv[s][1] : s \in 1..(t - 1)}) \cup {mv[s][2] : s \in 1..(t - 1)}

\* C14: with origin = c_0 occupied, c_1, c_2, ... the indices the ray yields,
\* c_0 .. c_m occupied and c_(m+1) the first absent one, shift ends with the
\* slot of every c_j (j in 0..m) stored at c_(j+1), the slot of the origin
\* at an index adjacent to the origin; its moves are c_m -> c_(m+1) first
\* and c_0 -> c_1 last, each to an index that is free when the move is made,
\* and every slot stored before is stored, under its own index, after
C14_ChainShift ==
    [][(/\ last'.op \in {"shift", "make_space"}
        /\ last'.idx \in DOMAIN content
        /\ last'.err # "ZeroDivisionError") =>
            LET o == last'.idx
                d == last'.info.dir
                m == ChainEnd(content, o, d)
                mv == last'.info.moves
            IN  /\ last'.err = "none"
                /\ \A j \in 0..m :
                      /\ OnRay(o, d, j + 1) \in DOMAIN content'
                      /\ content'[OnRay(o, d, j + 1)] = content[OnRay(o, d, j)]
                /\ Adjacent(slots'[content[o]].index, o)
                /\ mv = [t \in 1..(m + 1) |->
                           <<OnRay(o, d, m + 1 - t), OnRay(o, d, m + 2 - t)>>]
                /\ \A t \in 1..Len(mv) :
                      mv[t][2] \notin KeysBefore(content, mv, t)
                /\ \A s \in Range(content) : Placed(content', slots', s)]_vars

\* a shift has moved a chain of three slots, c_2 first
C14_Witness ==
    /\ last.op \in {"shift", "make_space"}
    /\ last.err = "none"
    /\ Len(last.info.moves) = 3
    /\ last.info.moves[1][1] = last.info.stack[3]
    /\ last.info.moves[3][1] = last.idx

\* ---------------------------------------------------------------------------
\* C15: every step of ray2 / ray3 advances one axis m whose
\* (1 - intercept[m]) / |direction[m]| is minimal, the lowest such axis when
\* several are minimal; after the step intercept[m] is 0 and every intercept
\* is within [0, 1].  The intercepts of the model are numerators over g.den,
\* and a zero component has an infinite quotient (builds with cdivision).
C15_TieBreak ==
    [][(gen'.err = "none" /\ gen'.count = gen.count + 1) =>
          LET g == gen.g
              g2 == gen'.g
              adv == {i \in 1..g.n : g2.idx[i] # g.idx[i]}
          IN  /\ Cardinality(adv) = 1
              /\ \A m \in adv :
                    /\ g.slope_abs[m] > 0
                    /\ \A i \in 1..g.n :
                          g.slope_abs[i] > 0 =>
                             IF i < m
                             THEN (g.den - g.intercept[m]) * g.slope_abs[i]
                                    < (g.den - g.intercept[i]) * g.slope_abs[m]
                             ELSE (g.den - g.intercept[m]) * g.slope_abs[i]
                                    <= (g.den - g.intercept[i]) * g.slope_abs[m]
                    /\ g2.intercept[m] = 0
              /\ \A i \in 1..g.n : g2.intercept[i] \in 0..g.den]_vars

\* direction (1, 1) from (0, 0) has yielded (1, 0), (1, 1), (2, 1), (2, 2)
C15_Witness ==
    /\ gen.origin = <<0, 0>>
    /\ gen.slope = <<1, 1>>
    /\ gen.seen = << <<1, 0>>, <<1, 1>>, <<2, 1>>, <<2, 2>> >>

\* ---------------------------------------------------------------------------
\* C16: shift on an occupied origin, with any non-zero direction, comes to an
\* end: the loop over the ray ends on an index that is not a key of the grid
\* after at most len(grid) items of the ray (one per chain index), and the
\* unwinding loop makes one move per chain index
C16_ShiftTerminates ==
    [][(/\ last'.op \in {"shift", "make_space"}
        /\ last'.idx \in DOMAIN content) =>
            /\ last'.err = "none"
            /\ last'.info.free # None
            /\ last'.info.free \notin DOMAIN content
            /\ Len(last'.info.stack) <= Grid__len__(content)
            /\ Len(last'.info.moves) = Len(last'.info.stack)]_vars

\* the same for the calls in which the ray does not raise
C16_ShiftTerminatesUnlessRayRaises ==
    [][(/\ last'.op \in {"shift", "make_space"}
        /\ last'.idx \in DOMAIN content
        /\ last'.err # "ZeroDivisionError") =>
            /\ last'.err = "none"
            /\ last'.info.free # None
            /\ last'.info.free \notin DOMAIN content
            /\ Len(last'.info.stack) <= Grid__len__(content)
            /\ Len(last'.info.moves) = Len(last'.info.stack)]_vars

\* ---------------------------------------------------------------------------
\* the indices of the ray from origin up to the first one after the origin
\* that is not a key of the grid c: the chain and its free terminus
RayTerminus(c, origin, d) ==
    CHOOSE m \in 1..(Cardinality(DOMAIN c) + 1) :
        /\ \A j \in 1..(m - 1) : OnRay(origin, d, j) \in DOMAIN c
        /\ OnRay(origin, d, m) \notin DOMAIN c

ChainAndTerminus(c, origin, d) ==
    {OnRay(origin, d, j) : j \in 0..RayTerminus(c, origin, d)}

\* C17: shift changes the grid only at the indices of the occupied chain and
\* at its free terminus: an entry elsewhere stays, its slot keeps its index,
\* and the only index that can become a key is the terminus
C17_ShiftFrame ==
    [][(last'.op \in {"shift", "make_space"}) =>
          LET o == last'.idx
              d == last'.info.dir
              on == IF last'.err = "ZeroDivisionError" THEN {o}
                    ELSE ChainAndTerminus(content, o, d)
              terminus == OnRay(o, d, RayTerminus(content, o, d))
          IN  /\ \A c \in DOMAIN content \ on :
                    /\ c \in DOMAIN content'
                    /\ content'[c] = content[c]
                    /\ slots'[content[c]] = slots[content[c]]
              /\ \A s \in Slot :
                    slots[s].index \notin on => slots'[s] = slots[s]
              /\ last'.err # "ZeroDivisionError"
                    => DOMAIN content' \ DOMAIN content \subseteq {terminus}
              /\ last'.err = "ZeroDivisionError"
                    => DOMAIN content' = DOMAIN content]_vars

\* a shift has moved a chain of two slots past a slot that is not on the chain
C17_Witness ==
    /\ last.op \in {"shift", "make_space"}
    /\ last.err = "none"
    /\ Len(last.info.moves) >= 2
    /\ \E c \in DOMAIN content :
          /\ c # last.info.free
          /\ \A j \in 1..Len(last.info.stack) : c # last.info.stack[j]

\* ---------------------------------------------------------------------------
\* C18: replace_with_children of a placed parent with k >= 1 children ends
\* with the parent's slot stored nowhere and its index None; every other slot
\* that the grid stored before is stored after, every child's slot is stored,
\* and the parent's slot is the only one that has lost its index
C18_SlotFate ==
    [][(/\ last'.op = "replace_with_children"
        /\ last'.info.k >= 1
        /\ slots[last'.slot].index # None
        /\ Placed(content, slots, last'.slot)) =>
            LET parent == last'.slot
                kids == last'.info.kids
            IN  /\ last'.err = "none"
                /\ parent \notin Range(content')
                /\ slots'[parent].index = None
                /\ \A s \in Range(content) \ {parent} :
                      Placed(content', slots', s)
                /\ \A j \in 1..Len(kids) : Placed(content', slots', kids[j])
                /\ {s \in 1..Len(slots') :
                       /\ slots'[s].index = None
                       /\ s \in Range(content) \/ s > Len(slots)} = {parent}]_vars

\* a parent with two children has been replaced on a grid that stored another
\* slot as well
C18_Witness ==
    /\ last.op = "replace_with_children"
    /\ last.err = "none"
    /\ last.info.k = 2
    /\ last.idx # None
    /\ Cardinality(DOMAIN content) = 3

\* ---------------------------------------------------------------------------
\* C19: shift on an origin that is not a key of the grid ends in a lookup
\* fault (KeyError), and the mapping of the grid and the index of every slot
\* are then what they were before the call, also when the indices after the
\* origin on the ray are occupied
C19_UnoccupiedOriginUnchanged ==
    [][(/\ last'.op \in {"shift", "make_space"}
        /\ last'.idx \notin DOMAIN content) =>
            /\ last'.err = "KeyError"
            /\ content' = content
            /\ slots' = slots]_vars

\* C19 as the code has it: shift on an origin that is not a key of the grid
\* ends in an error, never in a return: ZeroDivisionError from the ray's first
\* round with the grid untouched (a direction with a zero component in a
\* build without cdivision), else KeyError from self.grid[origin], raised by
\* the last move of the unwinding loop.  With c_1 .. c_(t-1) the occupied
\* indices after the origin on the ray and c_t the first absent one, the
\* moves c_(t-1) -> c_t, ..., c_1 -> c_2 have been made by then: the grid is
\* as before only if t = 1; else c_1 is free, c_t is occupied, every slot of
\* c_j is stored at c_(j+1), and nothing else has changed
C19_UnoccupiedOriginShiftsFollowers ==
    [][(/\ last'.op \in {"shift", "make_space"}
        /\ last'.idx \notin DOMAIN content) =>
            LET o == last'.idx
                d == last'.info.dir
                t == RayTerminus(content, o, d)
                rayRaises == ~cdivision /\ \E i \in 1..Len(d) : d[i] = 0
            IN  /\ last'.err = IF rayRaises THEN "ZeroDivisionError"
                               ELSE "KeyError"
                /\ rayRaises => (content' = content /\ slots' = slots)
                /\ ~rayRaises =>
                      /\ t = 1 => (content' = content /\ slots' = slots)
                      /\ t > 1 =>
                            /\ DOMAIN content' =
                                  (DOMAIN content \ {OnRay(o, d, 1)})
                                      \cup {OnRay(o, d, t)}
                            /\ \A j \in 1..(t - 1) :
                                  /\ content'[OnRay(o, d, j + 1)]
                                        = content[OnRay(o, d, j)]
                                  /\ slots'[content[OnRay(o, d, j)]].index
                                        = OnRay(o, d, j + 1)
                      /\ \A c \in DOMAIN content \ ChainAndTerminus(content, o, d) :
                            /\ c \in DOMAIN content'
                            /\ content'[c] = content[c]
                            /\ slots'[content[c]] = slots[content[c]]
                      /\ Len(last'.info.moves) = t - 1]_vars

\* a shift on an unoccupied origin has moved two slots and raised KeyError
C19_Witness ==
    /\ last.op \in {"shift", "make_space"}
    /\ last.err = "KeyError"
    /\ last.idx \notin DOMAIN content
    /\ Len(last.info.moves) = 2

\* ---------------------------------------------------------------------------
\* C20: along a ray every axis i moves only by sign(direction[i]) units, an
\* axis of component 0 never; the indices yielded are pairwise distinct and
\* none of them is the origin
C20_RayMonotone ==
    gen # NoGen =>
        LET at(j) == IF j = 0 THEN gen.origin ELSE gen.seen[j]
            n == Len(gen.origin)
        IN  /\ Len(gen.seen) = gen.count
            /\ \A j \in 1..Len(gen.seen) : \A i \in 1..n :
                  at(j)[i] - at(j - 1)[i] \in {0, np_sign(gen.slope[i])}
            /\ \A j \in 1..Len(gen.seen) : \A i \in 1..n :
                  gen.slope[i] = 0 => gen.seen[j][i] = gen.origin[i]
            /\ \A j, k \in 0..Len(gen.seen) : j # k => at(j) # at(k)

\* a ray in three dimensions with a negative and a zero component has
\* yielded all the items of the run
C20_Witness ==
    /\ gen # NoGen
    /\ Len(gen.seen) = MaxRaySteps
    /\ Len(gen.origin) = 3
    /\ \E i \in 1..3 : gen.slope[i] < 0
    /\ \E i \in 1..3 : gen.slope[i] = 0

\* C20, for shift: the indices of the chain shift builds are pairwise
\* distinct, and the free index it ends on is none of them
C20_ChainDistinct ==
    last.op \in {"shift", "make_space"} =>
        LET stack == last.info.stack
        IN  /\ \A j, k \in 1..Len(stack) : j # k => stack[j] # stack[k]
            /\ \A j \in 1..Len(stack) : stack[j] # last.info.free

=============================================================================
